---- MODULE Spec2Model ----
(***************************************************************************)
(* The audio-reactive sphere of src/components/CanvasComp.tsx: the React   *)
(* component's life cycle (mount effects, the animation effect and its     *)
(* cleanup), the throttled requestAnimationFrame loop `animate`, the band  *)
(* synthesis `simulateAudioBands` and the motion `updateSpherePosition`.   *)
(*                                                                         *)
(* Numbers.  JavaScript numbers are modelled in fixed point, in            *)
(* thousandths: 0.7 is 700, a pixel is 1000.  Times are whole              *)
(* milliseconds, angles are milliradians, Math.random() is a value in      *)
(* 0..999 (thousandths of [0, 1)).  The size prop is in whole pixels.      *)
(* colorCycleRef is kept in units of 0.0001.  Quotients truncate toward    *)
(* zero; the square root is rounded up to the grid.                        *)
(***************************************************************************)
EXTENDS Integers, Sequences, FiniteSets, TLC

VARIABLES
    phase,            \* life cycle of the component instance
    size,             \* prop `size` of the latest render (pixels)
    state,            \* prop `state` of the latest render
    audioLevel,       \* prop `audioLevel` of the latest render
    isInitialized,    \* useState(false)
    animationRef,     \* useRef<number>(0): handle of the scheduled callback
    sphereConfigRef,  \* useRef<SphereConfig>
    timeRef,          \* useRef<number>(0)
    colorCycleRef,    \* useRef<number>(0), in units of 0.0001
    audioBandsRef,    \* useRef<AudioBands>
    closure,          \* props captured by the `animate` that was scheduled
    lastFrameTime,    \* `let lastFrameTime` of that same render
    now,              \* the host clock (performance.now, frame timestamps)
    pending,          \* handles in the host's animation-frame callback list
    nextHandle,       \* next handle requestAnimationFrame returns
    random,           \* the Math.random() draws of the last direct call
    canvas,           \* what the last drawn frame painted
    frames,           \* number of frames drawn
    bodyRuns,         \* number of executions of animate past its first guard
    cancelled,        \* number of cancelAnimationFrame calls
    cleanups,         \* number of calls of the effect's cleanup function
    canvasWidth,      \* canvas.width = canvas.height (device pixels)
    calls,            \* number of direct calls of the function under study
    trace,            \* the steps of the last execution of animate, in order
    index             \* the Index page that hosts the component (live audio)

vars == << phase, size, state, audioLevel, isInitialized, animationRef,
           sphereConfigRef, timeRef, colorCycleRef, audioBandsRef, closure,
           lastFrameTime, now, pending, nextHandle, random, canvas, frames,
           bodyRuns, cancelled, cleanups, canvasWidth, calls, trace,
                    index >>

----------------------------------------------------------------------------
(* Bounds *)

MaxTime == 90
MaxCleanups == 2
MaxMoves == 2

----------------------------------------------------------------------------
(* Fixed-point arithmetic *)

Abs(a) == IF a < 0 THEN -a ELSE a

Min(a, b) == IF a < b THEN a ELSE b

Max(a, b) == IF a > b THEN a ELSE b

Sign(a) == IF a < 0 THEN -1 ELSE 1

\* a / b truncated toward zero, b > 0
TruncDiv(a, b) == Sign(a) * (Abs(a) \div b)

\* the product of two numbers in thousandths, in thousandths
FMul(a, b) ==
    Sign(a) * Sign(b) *
        ((Abs(a) \div 1000) * Abs(b) + ((Abs(a) % 1000) * Abs(b)) \div 1000)

RECURSIVE SqrtSearch(_, _, _)
SqrtSearch(n, lo, hi) ==
    IF lo >= hi THEN lo
    ELSE LET m == (lo + hi) \div 2
         IN  IF m * m >= n THEN SqrtSearch(n, lo, m)
                           ELSE SqrtSearch(n, m + 1, hi)

\* Math.sqrt of a sum of squares of thousandths: the least r with r*r >= n
Sqrt(n) == SqrtSearch(n, 0, 46340)

\* Math.PI in milliradians
PI == 3142

\* Bhaskara's rational approximation of the sine on [0, PI], in thousandths
HalfWave(x) ==
    LET p == (x * (PI - x)) \div 1000
    IN  (16000 * p) \div (((5 * PI * PI) \div 1000) - 4 * p)

\* a plausible slip: the cosine (a quarter-period phase shift)
SinShifted(a) ==
    LET x == (a + PI \div 2) % (2 * PI - 1)
    IN  IF x <= PI THEN HalfWave(x) ELSE -HalfWave(x - PI)

\* Math.sin of an angle in milliradians, in thousandths: Sin(0) = 0, |Sin| <= 1
Sin(a) ==
    LET x == a % (2 * PI - 1)
    IN  IF x <= PI THEN HalfWave(x) ELSE -HalfWave(x - PI)

----------------------------------------------------------------------------
(* Types and static data *)

AgentState ==
    {"disconnected", "connecting", "initializing", "listening", "thinking",
     "speaking"}

\* Object.keys(colors), in insertion order
ColorKeys == <<"primary", "secondary", "tertiary", "accent", "highlight">>

\* a plausible slip: one state has no palette
statePalettesWithoutThinking ==
    [s \in AgentState \ {"thinking"} |->
        [primary |-> "#D3E4FD", secondary |-> "#9b87f5",
         tertiary |-> "#E5DEFF", accent |-> "#8B5CF6", highlight |-> "#FFDEE2"]]

statePalettes ==
    [s \in AgentState |->
        CASE s = "disconnected" ->
                [primary |-> "#D3E4FD", secondary |-> "#9b87f5",
                 tertiary |-> "#E5DEFF", accent |-> "#8B5CF6",
                 highlight |-> "#FFDEE2"]
          [] s = "connecting" ->
                [primary |-> "#D3E4FD", secondary |-> "#7E69AB",
                 tertiary |-> "#E5DEFF", accent |-> "#8B5CF6",
                 highlight |-> "#FFDEE2"]
          [] s = "initializing" ->
                [primary |-> "#D3E4FD", secondary |-> "#6E59A5",
                 tertiary |-> "#E5DEFF", accent |-> "#9b87f5",
                 highlight |-> "#FFDEE2"]
          [] s = "listening" ->
                [primary |-> "#D3E4FD", secondary |-> "#D946EF",
                 tertiary |-> "#E5DEFF", accent |-> "#8B5CF6",
                 highlight |-> "#FFDEE2"]
          [] s = "thinking" ->
                [primary |-> "#D3E4FD", secondary |-> "#0EA5E9",
                 tertiary |-> "#D6BCFA", accent |-> "#33C3F0",
                 highlight |-> "#FFDEE2"]
          [] s = "speaking" ->
                [primary |-> "#D3E4FD", secondary |-> "#1EAEDB",
                 tertiary |-> "#D6BCFA", accent |-> "#0FA0CE",
                 highlight |-> "#FFDEE2"]]

\* a plausible slip: the interval of 60 frames a second
ReachesFrameInterval60(elapsed) == 60 * elapsed >= 1000

\* const frameInterval = 1000 / 30: `elapsed >= frameInterval` on whole ms
ReachesFrameInterval(elapsed) == 30 * elapsed >= 1000

----------------------------------------------------------------------------
(* Inputs the host and the random source can supply *)

Sizes == {100, 300}

HostStates == {"listening", "thinking", "speaking"}

Levels == {0, 1500}

WideLevels == {-10000, -1000, -1, 0, 500, 1000, 1500}

Times == {0, 157, 314, 942, 4712, 10000}

Draws == {0, 700, 750, 800, 850, 900, 950, 999}

CoarseDraws == {0, 999}

Deltas == {20, 40}

StartTimes == {7}

PixelRatios == {2}

Velocities == {-4000, 0, 300}

\* arguments << audioLevel, state, time, Math.random() >> of simulateAudioBands
MoveInputs ==
    { << 0, "listening", 0, 0 >>,
      << 10000, "speaking", 942, 0 >>,
      << 10000, "speaking", 314, 999 >>,
      << 1000, "listening", 0, 999 >>,
      << -1500, "thinking", 0, 0 >> }

MoveDeltas == {34, 60}

DrawLevels == {-100000, -3000, -1000, 0, 500, 800, 1000}

DrawTimes == {0, 34, 785, 2356, 10000, 49999, 50000, 123456}

----------------------------------------------------------------------------
(* simulateAudioBands *)

\* a plausible slip: the spike is not scaled by absLevel
TransientUnscaled(absLevel, rnd, threshold, spike) ==
    IF rnd > threshold THEN spike ELSE FMul(absLevel, 100)

\* absLevel * (Math.random() > threshold ? spike : 0.1)
Transient(absLevel, rnd, threshold, spike) ==
    FMul(absLevel, IF rnd > threshold THEN spike ELSE 100)

\* a plausible slip: the threshold of speaking is used for every state
BandsOneThreshold(absLevel, st, time, rnd) ==
    IF st = "speaking" THEN
        [low |-> FMul(absLevel, 700 + FMul(300, Sin(time * 2))),
         mid |-> FMul(absLevel, 500 + FMul(500, Sin(time * 5))),
         high |-> FMul(absLevel, 800 + FMul(200, Sin(time * 10))),
         transient |-> Transient(absLevel, rnd, 800, 1500)]
    ELSE IF st = "listening" THEN
        [low |-> FMul(absLevel, 400 + FMul(300, Sin(time * 2))),
         mid |-> FMul(absLevel, 700 + FMul(300, Sin(time * 5))),
         high |-> FMul(absLevel, 500 + FMul(200, Sin(time * 10))),
         transient |-> Transient(absLevel, rnd, 800, 1200)]
    ELSE
        [low |-> FMul(absLevel, 300 + FMul(200, Sin(time))),
         mid |-> FMul(absLevel, 300 + FMul(200, Sin(time * 3))),
         high |-> FMul(absLevel, 300 + FMul(200, Sin(time * 5))),
         transient |-> Transient(absLevel, rnd, 800, 800)]

\* the returned bands, given absLevel
Bands(absLevel, st, time, rnd) ==
    IF st = "speaking" THEN
        [low |-> FMul(absLevel, 700 + FMul(300, Sin(time * 2))),
         mid |-> FMul(absLevel, 500 + FMul(500, Sin(time * 5))),
         high |-> FMul(absLevel, 800 + FMul(200, Sin(time * 10))),
         transient |-> Transient(absLevel, rnd, 800, 1500)]
    ELSE IF st = "listening" THEN
        [low |-> FMul(absLevel, 400 + FMul(300, Sin(time * 2))),
         mid |-> FMul(absLevel, 700 + FMul(300, Sin(time * 5))),
         high |-> FMul(absLevel, 500 + FMul(200, Sin(time * 10))),
         transient |-> Transient(absLevel, rnd, 700, 1200)]
    ELSE
        [low |-> FMul(absLevel, 300 + FMul(200, Sin(time))),
         mid |-> FMul(absLevel, 300 + FMul(200, Sin(time * 3))),
         high |-> FMul(absLevel, 300 + FMul(200, Sin(time * 5))),
         transient |-> Transient(absLevel, rnd, 900, 800)]

\* a plausible slip: the signed level is used
simulateAudioBandsSigned(level, st, time, rnd) == Bands(level, st, time, rnd)

simulateAudioBands(level, st, time, rnd) == Bands(Abs(level), st, time, rnd)

----------------------------------------------------------------------------
(* updateSpherePosition *)

\* const movementFactor = bands.transient * 2 + bands.mid * 1.5
movementFactor(bands) == 2 * bands.transient + FMul(bands.mid, 1500)

\* const maxVelocity = 0.5 + movementFactor * 0.5
maxVelocity(bands) == 500 + FMul(movementFactor(bands), 500)

\* (Math.random() - 0.5) * 0.01 * movementFactor
Acceleration(rnd, bands) == TruncDiv((rnd - 500) * movementFactor(bands), 100000)

\* a plausible slip: only the x component is limited
LimitVelocityXOnly(vx, vy, bands) ==
    LET velocityMagnitude == Sqrt(vx * vx + vy * vy)
    IN  IF velocityMagnitude > maxVelocity(bands)
        THEN << TruncDiv(vx * maxVelocity(bands), velocityMagnitude), vy >>
        ELSE << vx, vy >>

\* the velocity after acceleration, damping and the magnitude limit
LimitVelocity(vx, vy, bands) ==
    LET velocityMagnitude == Sqrt(vx * vx + vy * vy)
    IN  IF velocityMagnitude > maxVelocity(bands)
        THEN << TruncDiv(vx * maxVelocity(bands), velocityMagnitude),
                TruncDiv(vy * maxVelocity(bands), velocityMagnitude) >>
        ELSE << vx, vy >>

\* a plausible slip: the lower limit is forgotten
ClampAxisUpperOnly(v, maxDisplacement) == Min(v, maxDisplacement)

\* Math.max(Math.min(v, maxDisplacement), -maxDisplacement)
ClampAxis(v, maxDisplacement) == Max(Min(v, maxDisplacement), -maxDisplacement)

\* the configuration after the call; `sz` is the `size` of the enclosing render
updateSpherePosition(config, sz, bands, deltaTime, rx, ry) ==
    LET dampedX == TruncDiv((config.velocityX + Acceleration(rx, bands)) * 95, 100)
        dampedY == TruncDiv((config.velocityY + Acceleration(ry, bands)) * 95, 100)
        v == LimitVelocity(dampedX, dampedY, bands)
        maxDisplacement == sz * 50
    IN  [config EXCEPT
            !.velocityX = v[1],
            !.velocityY = v[2],
            !.x = ClampAxis(config.x + TruncDiv(v[1] * deltaTime, 10), maxDisplacement),
            !.y = ClampAxis(config.y + TruncDiv(v[2] * deltaTime, 10), maxDisplacement)]

----------------------------------------------------------------------------
(* Drawing routines: what each one hands to the 2D context *)

createRadialGradient(radius, colors, bands) ==
    [r0 |-> 0,
     r1 |-> FMul(radius, 1000 + FMul(bands.low, 300)),
     stops |-> << colors.primary, colors.secondary, colors.tertiary,
                  colors.accent >>]

drawMainSphere(config, colors, bands, time) ==
    LET pulseFactor == FMul(Sin(time * 2), 150) + 850
        radius == FMul(FMul(config.baseRadius, 1000 + FMul(bands.low, 400)),
                       pulseFactor)
    IN  [radius |-> radius,
         gradient |-> createRadialGradient(FMul(radius, 1200), colors, bands),
         rimAlpha |-> 300 + FMul(bands.high, 400),
         rimWidth |-> 1000 + 3 * bands.transient,
         rimColor |-> colors.highlight]

\* a plausible slip: only the cycle counter is reduced modulo the key count
ColorIndexCycleOnly(i, colorCycle) ==
    i + ((colorCycle \div 10000) % Len(ColorKeys))

\* (i + Math.floor(colorCycleRef.current)) % Object.keys(colors).length
ColorIndex(i, colorCycle) == (i + (colorCycle \div 10000)) % Len(ColorKeys)

drawOrbitalArcs(config, colors, bands, time, colorCycle) ==
    LET distortionFactor == 1000 + FMul(bands.mid, 250)
    IN  [k \in 1..config.arcCount |->
            LET i == k - 1
                baseRotation == config.rotation + (i * 2 * PI) \div config.arcCount
                orbitalRadius ==
                    FMul(FMul(config.baseRadius,
                              1200 + i * 150 + FMul(bands.low, 100)),
                         distortionFactor)
                arcWidth ==
                    FMul(FMul(config.arcWidth, 600 + i * 200),
                         1000 + FMul(bands.high, 400))
                segmentLength ==
                    FMul(PI, 500 + FMul(bands.transient, 300)
                                 + FMul(Sin(time + i * 1000), 200))
                startAngle == baseRotation + FMul(Sin((time * 3) \div 2), 200)
                colorIndex == ColorIndex(i, colorCycle)
            IN  [orbitalRadius |-> orbitalRadius,
                 mirrorRadius |-> FMul(orbitalRadius, 950),
                 arcWidth |-> arcWidth,
                 startAngle |-> startAngle,
                 endAngle |-> startAngle + segmentLength,
                 mirrorEndAngle |-> startAngle + PI + FMul(segmentLength, 800),
                 colorIndex |-> colorIndex,
                 arcColor |-> IF colorIndex + 1 \in DOMAIN ColorKeys
                              THEN colors[ColorKeys[colorIndex + 1]]
                              ELSE "undefined",
                 alpha |-> 700 + FMul(bands.transient, 300)]]

----------------------------------------------------------------------------
(* The component: construction, effects, the frame callback *)

\* the initial value of sphereConfigRef
InitialConfig(sz) ==
    [baseRadius |-> sz * 350, maxExtraRadius |-> sz * 100, arcCount |-> 3,
     arcWidth |-> sz * 30, rotation |-> 0, distortion |-> 0,
     velocityX |-> 0, velocityY |-> 0, x |-> 0, y |-> 0]

NoBands == [low |-> 0, mid |-> 0, high |-> 0, transient |-> 0]

NoDraws == [transient |-> 0, ax |-> 0, ay |-> 0]

BlankCanvas == [painted |-> FALSE]

\* what the first render of the Index page binds: useState's initial values,
\* which are the ones its [] effect and startAudioSimulation close over
FirstRender == [audioContext |-> "null", agentState |-> "disconnected"]

\* the Index page before its effects have run
NoPage ==
    [mounted |-> FALSE,          \* the page's effects have run
     unmounted |-> FALSE,        \* the page's effect cleanups have run
     mic |-> "idle",             \* the getUserMedia promise
     micAccess |-> FALSE,        \* useState(false)
     audioContext |-> FirstRender.audioContext,   \* useState(null)
     audioAnalyser |-> "null",   \* useState(null)
     contextState |-> "none",    \* the AudioContext object, once created
     polling |-> {},             \* updateAudioLevel callbacks in the host's list
     animationFrame |-> 0,       \* `let animationFrame` of the polling effect
     pollEffects |-> 0,          \* runs of the polling effect past its guards
     polls |-> 0,                \* executions of updateAudioLevel
     average |-> 0,              \* the last average read from the analyser
     normalizedLevel |-> 0,      \* the last level updateAudioLevel computed
     intervals |-> 0,            \* live setInterval timers
     ticks |-> 0,                \* executions of the interval callback
     tick |-> [displayed |-> "disconnected", r |-> 0, r2 |-> 0,
               randomLevel |-> 0],   \* the last execution: the agentState on
                                     \* screen, its draws and its level
     requests |-> 0,             \* calls of getUserMedia
     errorToasts |-> 0,          \* calls of toast.error
     successToasts |-> 0,        \* calls of toast.success
     consoleErrors |-> 0]        \* calls of console.error

\* the state right after the component function has run for the first time
ConstructedWith(sz, st, level, t0, config) ==
    /\ phase = "rendered"
    /\ size = sz
    /\ state = st
    /\ audioLevel = level
    /\ isInitialized = FALSE
    /\ animationRef = 0
    /\ sphereConfigRef = config
    /\ timeRef = 0
    /\ colorCycleRef = 0
    /\ audioBandsRef = NoBands
    /\ closure = [size |-> sz, state |-> st, audioLevel |-> level]
    /\ lastFrameTime = t0
    /\ now = t0
    /\ pending = {}
    /\ nextHandle = 1
    /\ random = NoDraws
    /\ canvas = BlankCanvas
    /\ frames = 0
    /\ bodyRuns = 0
    /\ cancelled = 0
    /\ cleanups = 0
    /\ canvasWidth = 0
    /\ calls = 0
    /\ trace = << >>
    /\ index = NoPage

Constructed(sz, st, level, t0) ==
    ConstructedWith(sz, st, level, t0, InitialConfig(sz))

Init ==
    \E sz \in Sizes, st \in HostStates, level \in Levels, t0 \in StartTimes :
        Constructed(sz, st, level, t0)

\* a plausible slip: the effect builds the configuration anew
SizeEffectResets(config, sz) ==
    [config EXCEPT !.baseRadius = sz * 350, !.maxExtraRadius = sz * 100,
                   !.arcWidth = sz * 30, !.rotation = 0, !.distortion = 0,
                   !.velocityX = 0, !.velocityY = 0, !.x = 0, !.y = 0]

\* the effect on [size]: new radii and arc width, every other field kept
SizeEffect(config, sz) ==
    [config EXCEPT !.baseRadius = sz * 350, !.maxExtraRadius = sz * 100,
                   !.arcWidth = sz * 30]

\* The first commit: the initialisation effect sizes the canvas and sets
\* isInitialized, the size effect runs, the animation effect returns early
\* because the render it belongs to saw isInitialized = false.
Mount ==
    /\ phase = "rendered"
    /\ ~isInitialized
    /\ \E pixelRatio \in PixelRatios : canvasWidth' = size * pixelRatio
    /\ isInitialized' = TRUE
    /\ sphereConfigRef' = SizeEffect(sphereConfigRef, size)
    /\ phase' = "mounted"
    /\ UNCHANGED << size, state, audioLevel, animationRef, timeRef,
                    colorCycleRef, audioBandsRef, closure, lastFrameTime, now,
                    pending, nextHandle, random, canvas, frames, bodyRuns,
                    cancelled, cleanups, calls, trace,
                    index >>

\* The render caused by setIsInitialized(true) and its commit: that render's
\* `animate` captures the props of that render and a fresh lastFrameTime, and
\* the animation effect requests the first frame with it.
AnimationEffect ==
    /\ phase = "mounted"
    /\ isInitialized
    /\ closure' = [size |-> size, state |-> state, audioLevel |-> audioLevel]
    /\ lastFrameTime' = now
    /\ animationRef' = nextHandle
    /\ pending' = pending \cup {nextHandle}
    /\ nextHandle' = nextHandle + 1
    /\ phase' = "running"
    /\ UNCHANGED << size, state, audioLevel, isInitialized, sphereConfigRef,
                    timeRef, colorCycleRef, audioBandsRef, now, random, canvas,
                    frames, bodyRuns, cancelled, cleanups, canvasWidth, calls, trace,
                    index >>

Mounted == phase \in {"mounted", "running"}

\* The host re-renders the component with a new audioLevel.  The render makes
\* a new `animate`, which nothing schedules: no effect depends on audioLevel.
SetAudioLevel(level) ==
    /\ Mounted
    /\ level # audioLevel
    /\ audioLevel' = level
    /\ UNCHANGED << phase, size, state, isInitialized, animationRef,
                    sphereConfigRef, timeRef, colorCycleRef, audioBandsRef,
                    closure, lastFrameTime, now, pending, nextHandle, random,
                    canvas, frames, bodyRuns, cancelled, cleanups, canvasWidth,
                    calls, trace,
                    index >>

\* The host re-renders the component with a new state; no effect depends on it.
SetState(st) ==
    /\ Mounted
    /\ st # state
    /\ state' = st
    /\ UNCHANGED << phase, size, audioLevel, isInitialized, animationRef,
                    sphereConfigRef, timeRef, colorCycleRef, audioBandsRef,
                    closure, lastFrameTime, now, pending, nextHandle, random,
                    canvas, frames, bodyRuns, cancelled, cleanups, canvasWidth,
                    calls, trace,
                    index >>

\* The host re-renders the component with a new size: the size effect runs;
\* the initialisation effect runs too and does nothing (isInitialized is set).
SetSize(sz) ==
    /\ Mounted
    /\ sz # size
    /\ size' = sz
    /\ sphereConfigRef' = SizeEffect(sphereConfigRef, sz)
    /\ UNCHANGED << phase, state, audioLevel, isInitialized, animationRef,
                    timeRef, colorCycleRef, audioBandsRef, closure,
                    lastFrameTime, now, pending, nextHandle, random, canvas,
                    frames, bodyRuns, cancelled, cleanups, canvasWidth, calls, trace,
                    index >>

\* canvasRef.current?.getContext('2d'): the ref is attached while mounted
canvasContext == phase # "unmounted"

\* a plausible slip: the handle of the requested frame is not stored
RescheduleUnstored(h) ==
    /\ pending' = (pending \ {h}) \cup {nextHandle}
    /\ nextHandle' = nextHandle + 1
    /\ UNCHANGED animationRef

\* a plausible slip: the callback does not request the next frame
RescheduleDropped(h) ==
    /\ pending' = pending \ {h}
    /\ UNCHANGED << animationRef, nextHandle >>

\* requestAnimationFrame(animate) at the end of animate
Reschedule(h) ==
    /\ animationRef' = nextHandle
    /\ pending' = (pending \ {h}) \cup {nextHandle}
    /\ nextHandle' = nextHandle + 1

\* a plausible slip: the next frame is requested before the tick is drawn
DrawStepsRequestFirst ==
    << "requestAnimationFrame", "update", "clearRect", "drawMainSphere",
       "drawOrbitalArcs", "lastFrameTime" >>

\* the steps of a drawn tick, in the order of the statements of animate
DrawSteps ==
    << "update", "clearRect", "drawMainSphere", "drawOrbitalArcs",
       "lastFrameTime", "requestAnimationFrame" >>

\* clearRect, drawMainSphere and drawOrbitalArcs of a drawn tick
Paint(config, colorPalette, bands, time, colorCycle) ==
    [painted |-> TRUE,
     colors |-> colorPalette,
     x |-> canvasWidth * 500 + config.x,
     y |-> canvasWidth * 500 + config.y,
     sphere |-> drawMainSphere(config, colorPalette, bands, time),
     arcs |-> drawOrbitalArcs(config, colorPalette, bands, time, colorCycle)]

\* a plausible slip: the throttle reference moves on every callback
SkipFrameMovesReference(h, timestamp) ==
    /\ bodyRuns' = bodyRuns + 1
    /\ Reschedule(h)
    /\ trace' = << "requestAnimationFrame" >>
    /\ lastFrameTime' = timestamp
    /\ UNCHANGED << sphereConfigRef, timeRef, colorCycleRef, audioBandsRef,
                    canvas, frames >>

\* the tick the throttle skips: only the next frame is requested
SkipFrame(h, timestamp) ==
    /\ bodyRuns' = bodyRuns + 1
    /\ Reschedule(h)
    /\ trace' = << "requestAnimationFrame" >>
    /\ UNCHANGED << sphereConfigRef, timeRef, colorCycleRef, audioBandsRef,
                    lastFrameTime, canvas, frames >>

\* The host runs callback h of its list with the frame's timestamp.
animate(h, timestamp, rt, rx, ry) ==
    /\ now' = timestamp
    /\ UNCHANGED << phase, size, state, audioLevel, isInitialized, closure,
                    cancelled, cleanups, canvasWidth, calls, random,
                    index >>
    /\ IF animationRef = 0 THEN
            /\ pending' = pending \ {h}
            /\ trace' = << >>
            /\ UNCHANGED << animationRef, nextHandle, sphereConfigRef, timeRef,
                            colorCycleRef, audioBandsRef, lastFrameTime,
                            canvas, frames, bodyRuns >>
       ELSE IF ~ReachesFrameInterval(timestamp - lastFrameTime) THEN
            SkipFrame(h, timestamp)
       ELSE IF ~canvasContext THEN
            /\ bodyRuns' = bodyRuns + 1
            /\ pending' = pending \ {h}
            /\ trace' = << >>
            /\ UNCHANGED << animationRef, nextHandle, sphereConfigRef, timeRef,
                            colorCycleRef, audioBandsRef, lastFrameTime,
                            canvas, frames >>
       ELSE LET deltaTime == timestamp - lastFrameTime
                time == timeRef + deltaTime
                colorCycle == colorCycleRef + deltaTime
                bands == simulateAudioBands(closure.audioLevel, closure.state,
                                            time, rt)
                turned == [sphereConfigRef EXCEPT
                              !.rotation = @ + FMul(5, 1000 + FMul(bands.mid, 700)),
                              !.distortion = FMul(bands.high, 300)]
                config == updateSpherePosition(turned, closure.size, bands,
                                               deltaTime, rx, ry)
                colorPalette == statePalettes[closure.state]
            IN  /\ bodyRuns' = bodyRuns + 1
                /\ timeRef' = time
                /\ colorCycleRef' = colorCycle
                /\ audioBandsRef' = bands
                /\ sphereConfigRef' = config
                /\ canvas' = Paint(config, colorPalette, bands, time, colorCycle)
                /\ trace' = DrawSteps
                /\ frames' = frames + 1
                /\ lastFrameTime' = timestamp
                /\ Reschedule(h)

\* The host's next animation frame: it runs the pending callback.
AnimationFrame ==
    \E h \in pending, d \in Deltas, rt \in CoarseDraws, rx \in CoarseDraws,
       ry \in CoarseDraws :
        /\ now + d <= MaxTime
        /\ animate(h, now + d, rt, rx, ry)

\* a plausible slip: the cleanup cancels nothing
CleanupForgets ==
    /\ phase \in {"running", "unmounted"}
    /\ cleanups < MaxCleanups
    /\ cleanups' = cleanups + 1
    /\ phase' = "unmounted"
    /\ UNCHANGED << pending, cancelled, animationRef >>
    /\ UNCHANGED << size, state, audioLevel, isInitialized, sphereConfigRef,
                    timeRef, colorCycleRef, audioBandsRef, closure,
                    lastFrameTime, now, nextHandle, random, canvas, frames,
                    bodyRuns, canvasWidth, calls, trace,
                    index >>

\* a plausible slip: the cleanup cancels without testing or zeroing the handle
CleanupKeepsHandle ==
    /\ phase \in {"running", "unmounted"}
    /\ cleanups < MaxCleanups
    /\ cleanups' = cleanups + 1
    /\ phase' = "unmounted"
    /\ pending' = pending \ {animationRef}
    /\ cancelled' = cancelled + 1
    /\ UNCHANGED animationRef
    /\ UNCHANGED << size, state, audioLevel, isInitialized, sphereConfigRef,
                    timeRef, colorCycleRef, audioBandsRef, closure,
                    lastFrameTime, now, nextHandle, random, canvas, frames,
                    bodyRuns, canvasWidth, calls, trace,
                    index >>

\* The cleanup function the animation effect returned.  React calls it when
\* the component unmounts; calling it again is allowed.
Cleanup ==
    /\ phase \in {"running", "unmounted"}
    /\ cleanups < MaxCleanups
    /\ cleanups' = cleanups + 1
    /\ phase' = "unmounted"
    /\ IF animationRef # 0
       THEN /\ pending' = pending \ {animationRef}
            /\ cancelled' = cancelled + 1
            /\ animationRef' = 0
       ELSE UNCHANGED << pending, cancelled, animationRef >>
    /\ UNCHANGED << size, state, audioLevel, isInitialized, sphereConfigRef,
                    timeRef, colorCycleRef, audioBandsRef, closure,
                    lastFrameTime, now, nextHandle, random, canvas, frames,
                    bodyRuns, canvasWidth, calls, trace,
                    index >>

Next ==
    \/ Mount
    \/ AnimationEffect
    \/ \E level \in Levels : SetAudioLevel(level)
    \/ \E st \in HostStates : SetState(st)
    \/ \E sz \in Sizes : SetSize(sz)
    \/ AnimationFrame
    \/ Cleanup

Spec == Init /\ [][Next]_vars

----------------------------------------------------------------------------
(* The running component over a second of slow frames, resized on the way:  *)
(* long enough for the random walk of updateSpherePosition to leave the     *)
(* zone of the smaller size.                                                *)

\* the host clock up to which frames are delivered
MaxResizeTime == 1200

\* time between two frames of a slow host
ResizeDeltas == {100}

\* a frame callback: the transient spikes, both axes draw the same value
ResizeFrame ==
    \E h \in pending, d \in ResizeDeltas, r \in CoarseDraws :
        /\ now + d <= MaxResizeTime
        /\ animate(h, now + d, 999, r, r)

InitResize == Constructed(300, "speaking", 1000, 7)

NextResize ==
    \/ Mount
    \/ AnimationEffect
    \/ \E sz \in Sizes : SetSize(sz)
    \/ ResizeFrame

SpecResize == InitResize /\ [][NextResize]_vars

----------------------------------------------------------------------------
(* The Index page of the live-audio variant: it asks for the microphone     *)
(* once, polls the analyser every animation frame when it got it, and       *)
(* starts the interval simulator when it did not.  It renders CanvasComp    *)
(* with size 300, state = agentState and audioLevel = audioLevel, so the    *)
(* variables state and audioLevel are the page's useState values.           *)

\* executions of updateAudioLevel a behaviour may contain
MaxPolls == 2

\* executions of the interval callback a behaviour may contain
MaxTicks == 2

\* averages of the analyser's byte frequency data (each byte is 0..255)
Averages == {0, 128, 255}

\* Math.random() draws of the interval callback
TickDraws == {0, 980}

\* what the page's handlers never touch
componentRefs ==
    << phase, size, isInitialized, animationRef, sphereConfigRef, timeRef,
       colorCycleRef, audioBandsRef, closure, lastFrameTime, now, pending,
       random, canvas, frames, bodyRuns, cancelled, cleanups, canvasWidth,
       calls, trace >>

\* React is between the cleanups of one unmount: nothing else runs
Committing == phase = "unmounted" /\ index.mounted /\ ~index.unmounted

\* a state setter of the page: dropped once the page is unmounted
PageSet(current, value) == IF index.unmounted THEN current ELSE value

\* a plausible slip: the level is clamped to the documented range
NormalizedLevelClamped(average) ==
    Max(-1000, Min(1000, FMul(TruncDiv(average * 1000, 128) - 500, 1500)))

\* normalizedLevel = ((average / 128) - 0.5) * 1.5
NormalizedLevel(average) ==
    FMul(TruncDiv(average * 1000, 128) - 500, 1500)

\* randomLevel of the interval callback for the agentState it closed over
SimulatedLevel(agentState, r, r2) ==
    IF agentState = "speaking" THEN
        LET randomLevel == FMul(r - 300, 1500)
        IN  IF r2 > 900 THEN FMul(randomLevel, 200) ELSE randomLevel
    ELSE IF agentState = "listening" THEN
        LET randomLevel == FMul(r - 500, 800)
        IN  IF r2 > 930 THEN FMul(randomLevel, 2500) ELSE randomLevel
    ELSE FMul(r - 500, 300)

\* [...states, 'listening', 'listening', 'speaking', 'speaking']
weightedStates ==
    << "disconnected", "connecting", "initializing", "listening", "thinking",
       "speaking", "listening", "listening", "speaking", "speaking" >>

\* weightedStates[Math.floor(Math.random() * weightedStates.length)]
RandomState(r) == weightedStates[((r * Len(weightedStates)) \div 1000) + 1]

\* The page's first commit, after the component's: the [] effect calls
\* requestMicrophoneAccess, which calls getUserMedia and awaits; the polling
\* effect returns at once because micAccess is false.
IndexMount ==
    /\ ~index.mounted
    /\ phase = "mounted"
    /\ index' = [index EXCEPT !.mounted = TRUE, !.mic = "pending",
                              !.requests = @ + 1]
    /\ UNCHANGED << componentRefs, state, audioLevel, nextHandle >>

\* getUserMedia resolved: the rest of the try block
MicGranted ==
    /\ index.mic = "pending"
    /\ ~Committing
    /\ index' = [index EXCEPT
                    !.mic = "granted",
                    !.contextState = "running",
                    !.audioContext = PageSet(@, "context"),
                    !.audioAnalyser = PageSet(@, "analyser"),
                    !.micAccess = PageSet(@, TRUE),
                    !.successToasts = @ + 1]
    /\ state' = PageSet(state, "listening")
    /\ UNCHANGED << componentRefs, audioLevel, nextHandle >>

\* a plausible slip: the catch block asks for the microphone again
MicDeniedRetries ==
    /\ index.mic = "pending"
    /\ ~Committing
    /\ index.requests < 3
    /\ index' = [index EXCEPT
                    !.consoleErrors = @ + 1,
                    !.errorToasts = @ + 1,
                    !.requests = @ + 1]
    /\ UNCHANGED << componentRefs, state, audioLevel, nextHandle >>

\* getUserMedia rejected: the catch block, with startAudioSimulation
MicDenied ==
    /\ index.mic = "pending"
    /\ ~Committing
    /\ index' = [index EXCEPT
                    !.mic = "denied",
                    !.consoleErrors = @ + 1,
                    !.errorToasts = @ + 1,
                    !.intervals = @ + 1]
    /\ UNCHANGED << componentRefs, state, audioLevel, nextHandle >>

\* the body of updateAudioLevel: read, average, normalise, set, request
updateAudioLevel(h, average) ==
    /\ index' = [index EXCEPT
                    !.polls = @ + 1,
                    !.average = average,
                    !.normalizedLevel = NormalizedLevel(average),
                    !.animationFrame = nextHandle,
                    !.polling = (@ \ {h}) \cup {nextHandle},
                    !.pollEffects = IF h = 0 THEN @ + 1 ELSE @]
    /\ audioLevel' = PageSet(audioLevel, NormalizedLevel(average))
    /\ nextHandle' = nextHandle + 1
    /\ UNCHANGED << componentRefs, state >>

\* The commit after micAccess and audioAnalyser were set: the polling effect
\* passes both guards and calls updateAudioLevel() itself.
PollEffect ==
    /\ index.mounted /\ ~index.unmounted /\ ~Committing
    /\ index.micAccess
    /\ index.audioAnalyser # "null"
    /\ index.pollEffects = 0
    /\ \E average \in Averages : updateAudioLevel(0, average)

\* the host's animation frame runs a pending updateAudioLevel
PollFrame ==
    /\ ~Committing
    /\ index.polls < MaxPolls
    /\ \E h \in index.polling, average \in Averages :
          updateAudioLevel(h, average)

\* The interval callback of startAudioSimulation.  The callback belongs to
\* the first render, so the agentState it tests is that render's.
SimTick ==
    /\ index.intervals > 0
    /\ ~Committing
    /\ index.ticks < MaxTicks
    /\ \E r \in TickDraws, r2 \in TickDraws, r3 \in TickDraws, r4 \in TickDraws :
          /\ audioLevel' =
                PageSet(audioLevel, SimulatedLevel(FirstRender.agentState, r, r2))
          /\ state' = IF r3 > 970 THEN PageSet(state, RandomState(r4)) ELSE state
          /\ index' = [index EXCEPT
                          !.ticks = @ + 1,
                          !.tick = [displayed |-> state, r |-> r, r2 |-> r2,
                                    randomLevel |->
                                        SimulatedLevel(FirstRender.agentState,
                                                       r, r2)]]
    /\ UNCHANGED << componentRefs, nextHandle >>

\* a plausible slip: the polling cleanup cancels nothing
PollCleanupForgets(polling, animationFrame) == polling

\* cleanup of the polling effect: cancels the handle in `animationFrame`
PollCleanup(polling, animationFrame) ==
    IF animationFrame # 0 THEN polling \ {animationFrame} ELSE polling

\* cleanup of the [] effect: closes the context its render saw, if any
MicCleanup(audioContext, contextState) ==
    IF audioContext # "null" THEN "closed" ELSE contextState

\* The page unmounts: after the component's cleanup React runs the cleanups
\* of the page's effects.  The [] effect's cleanup is the one of the first
\* render; the polling effect returned one only if it passed its guards.
PageCleanup ==
    /\ index.mounted /\ ~index.unmounted
    /\ phase = "unmounted"
    /\ index' = [index EXCEPT
                    !.unmounted = TRUE,
                    !.polling = IF index.pollEffects > 0
                                THEN PollCleanup(@, index.animationFrame)
                                ELSE @,
                    !.contextState =
                        MicCleanup(FirstRender.audioContext, @)]
    /\ UNCHANGED << componentRefs, state, audioLevel, nextHandle >>

NextIndex ==
    \/ Mount
    \/ AnimationEffect
    \/ AnimationFrame
    \/ Cleanup
    \/ IndexMount
    \/ MicGranted
    \/ MicDenied
    \/ PollEffect
    \/ PollFrame
    \/ SimTick
    \/ PageCleanup

InitIndex == Constructed(300, FirstRender.agentState, 0, 7)

SpecIndex == InitIndex /\ [][NextIndex]_vars

----------------------------------------------------------------------------
(* The wave-arc variant of the component: its configuration has four more   *)
(* fields, the sphere and the arcs are drawn with a shadow blur, and every  *)
(* arc is a smoothed polyline.  blurAmount is in thousandths of a pixel,    *)
(* waveFactor and wavePeriod in thousandths, waveSpeed in millionths.       *)

\* drawn ticks a behaviour of the variant may contain
MaxWaveFrames == 1

\* the useRef initial value of the variant
InitialWaveConfig(sz) ==
    [baseRadius |-> sz * 350, maxExtraRadius |-> sz * 100, arcCount |-> 4,
     arcWidth |-> sz * 30, rotation |-> 0, distortion |-> 0,
     velocityX |-> 0, velocityY |-> 0, x |-> 0, y |-> 0,
     blurAmount |-> 5000, waveFactor |-> 200, wavePeriod |-> 6000,
     waveSpeed |-> 1000]

\* Math.cos of an angle in milliradians, in thousandths
Cos(a) == Sin(a + PI \div 2)

\* const steps = 30
steps == 30

\* the points of one wave arc; `angle` is the loop's local of the same name
calculateWavePoints(centerX, centerY, radius, startAngle, endAngle, config, time, bands) ==
    LET waveFactor == FMul(config.waveFactor, 1000 + FMul(bands.high, 500))
        wavePeriod == FMul(config.wavePeriod, 1000 - FMul(bands.mid, 300))
        waveSpeed == FMul(config.waveSpeed, 1000 + FMul(bands.mid, 500))
    IN  [k \in 1..(steps + 1) |->
            LET i == k - 1
                angle == startAngle + TruncDiv((endAngle - startAngle) * i, steps)
                phase0 == FMul(angle, wavePeriod) + TruncDiv(time * waveSpeed, 1000)
                waveOffset ==
                    FMul(FMul(FMul(Sin(phase0), waveFactor), radius),
                         1000 + FMul(bands.high, 300))
                waveRadius == radius + waveOffset
            IN  [angle |-> angle,
                 x |-> centerX + FMul(Cos(angle), waveRadius),
                 y |-> centerY + FMul(Sin(angle), waveRadius)]]

\* a plausible slip: the smoothing loop runs up to the last but one point
SmoothedToEnd(length) == 1..(length - 2)

\* the indices of `for (let i = 1; i < points.length - 2; i++)`
Smoothed(length) == 1..(length - 3)

\* What drawWaveArc hands to the 2D context.  Points are numbered from 0 as in
\* the source; `control` is the number of the point used as control point.
drawWaveArc(centerX, centerY, radius, startAngle, endAngle, width, color, config, time, bands, blur) ==
    LET points == calculateWavePoints(centerX, centerY, radius, startAngle,
                                      endAngle, config, time, bands)
        length == Len(points)
        at(i) == points[i + 1]
        curves == [i \in Smoothed(length) |->
                      [op |-> "quadraticCurveTo", control |-> i,
                       cpx |-> at(i).x, cpy |-> at(i).y,
                       x |-> TruncDiv(at(i).x + at(i + 1).x, 2),
                       y |-> TruncDiv(at(i).y + at(i + 1).y, 2)]]
        last == IF length > 2
                THEN << [op |-> "quadraticCurveTo", control |-> length - 2,
                         cpx |-> at(length - 2).x, cpy |-> at(length - 2).y,
                         x |-> at(length - 1).x, y |-> at(length - 1).y] >>
                ELSE << >>
    IN  [lineWidth |-> width,
         strokeStyle |-> color,
         shadowBlur |-> IF blur
                        THEN FMul(config.blurAmount, 500 + FMul(bands.mid, 500))
                        ELSE 0,
         points |-> points,
         path |-> IF length > 0
                  THEN << [op |-> "moveTo", control |-> -1,
                           cpx |-> at(0).x, cpy |-> at(0).y,
                           x |-> at(0).x, y |-> at(0).y] >> \o curves \o last
                  ELSE << >>]

\* drawMainSphere of the variant: radius on low * 0.5, with a shadow blur
drawMainSphereWave(config, colors, bands, time) ==
    LET pulseFactor == FMul(Sin(time * 2), 150) + 850
        radius == FMul(FMul(config.baseRadius, 1000 + FMul(bands.low, 500)),
                       pulseFactor)
    IN  [radius |-> radius,
         gradient |-> createRadialGradient(FMul(radius, 1200), colors, bands),
         shadowBlur |-> FMul(config.blurAmount, 200 + FMul(bands.mid, 1200)),
         shadowColor |-> colors.secondary,
         rimAlpha |-> 300 + FMul(bands.high, 400),
         rimWidth |-> 1000 + 3 * bands.transient,
         rimColor |-> colors.highlight]

\* drawOrbitalArcs of the variant: per arc, the wave arc and its opposite
drawOrbitalWaveArcs(centerX, centerY, config, colors, bands, time, colorCycle) ==
    LET distortionFactor == 1000 + FMul(bands.mid, 400)
    IN  [k \in 1..config.arcCount |->
            LET i == k - 1
                baseRotation == config.rotation + (i * 2 * PI) \div config.arcCount
                orbitalRadius ==
                    FMul(FMul(config.baseRadius,
                              1200 + i * 150 + FMul(bands.low, 200)),
                         distortionFactor)
                arcWidth ==
                    FMul(FMul(config.arcWidth, 600 + i * 200),
                         1000 + FMul(bands.high, 500))
                segmentLength ==
                    FMul(PI, 500 + FMul(bands.transient, 300)
                                 + FMul(Sin(time + i * 1000), 200))
                startAngle == baseRotation + FMul(Sin((time * 3) \div 2), 200)
                endAngle == startAngle + segmentLength
                arcColor == colors[ColorKeys[ColorIndex(i, colorCycle) + 1]]
                oppositeStartAngle == startAngle + PI
                oppositeEndAngle == oppositeStartAngle + FMul(segmentLength, 800)
            IN  [startAngle |-> startAngle,
                 endAngle |-> endAngle,
                 oppositeStartAngle |-> oppositeStartAngle,
                 oppositeEndAngle |-> oppositeEndAngle,
                 arc |-> drawWaveArc(centerX, centerY, orbitalRadius,
                                     startAngle, endAngle, arcWidth, arcColor,
                                     config, time, bands, TRUE),
                 opposite |-> drawWaveArc(centerX, centerY,
                                          FMul(orbitalRadius, 950),
                                          oppositeStartAngle, oppositeEndAngle,
                                          FMul(arcWidth, 800), arcColor, config,
                                          TruncDiv(time * 12, 10), bands, TRUE)]]

\* audioLevel values of the variant's ticks
WaveLevels == {0, 1000}

\* states of the variant's ticks
WaveStates == {"speaking", "listening", "thinking"}

\* time between two drawn frames; the long one is a frame after a pause
WaveDeltas == {34, 9425}

InitWave ==
    \E sz \in Sizes :
        ConstructedWith(sz, "listening", 0, 0, InitialWaveConfig(sz))

\* One drawn tick of the variant's animate, for the props and the draw given.
WaveFrame ==
    \E level \in WaveLevels, st \in WaveStates, deltaTime \in WaveDeltas,
       rnd \in CoarseDraws :
        LET time == timeRef + deltaTime
            colorCycle == colorCycleRef + deltaTime
            bands == simulateAudioBands(level, st, time, rnd)
            turned == [sphereConfigRef EXCEPT
                          !.rotation = @ + FMul(5, 1000 + FMul(bands.mid, 700)),
                          !.distortion = FMul(bands.high, 300),
                          !.blurAmount = 5000 + 10 * Sin(time \div 2)]
            config == updateSpherePosition(turned, size, bands, deltaTime,
                                           999, 0)
            centerX == canvasWidth * 500 + config.x
            centerY == canvasWidth * 500 + config.y
            colorPalette == statePalettes[st]
        IN  /\ calls < MaxWaveFrames
            /\ calls' = calls + 1
            /\ audioLevel' = level
            /\ state' = st
            /\ now' = now + deltaTime
            /\ lastFrameTime' = now + deltaTime
            /\ timeRef' = time
            /\ colorCycleRef' = colorCycle
            /\ random' = [transient |-> rnd, ax |-> 999, ay |-> 0]
            /\ audioBandsRef' = bands
            /\ sphereConfigRef' = config
            /\ frames' = frames + 1
            /\ canvas' =
                  [painted |-> TRUE,
                   colors |-> colorPalette,
                   x |-> centerX,
                   y |-> centerY,
                   sphere |-> drawMainSphereWave(config, colorPalette, bands, time),
                   arcs |-> drawOrbitalWaveArcs(centerX, centerY, config,
                                                colorPalette, bands, time,
                                                colorCycle)]
            /\ UNCHANGED << phase, size, isInitialized, animationRef, closure,
                            pending, nextHandle, bodyRuns, cancelled, cleanups,
                            canvasWidth, trace, index >>

\* the host re-renders the variant with a new size: its size effect runs
WaveResize ==
    \E sz \in Sizes :
        /\ sz # size
        /\ size' = sz
        /\ sphereConfigRef' = SizeEffect(sphereConfigRef, sz)
        /\ UNCHANGED << phase, state, audioLevel, isInitialized, animationRef,
                        timeRef, colorCycleRef, audioBandsRef, closure,
                        lastFrameTime, now, pending, nextHandle, random,
                        canvas, frames, bodyRuns, cancelled, cleanups,
                        canvasWidth, calls, trace, index >>

NextWave ==
    \/ WaveFrame
    \/ WaveResize

SpecWave == InitWave /\ [][NextWave]_vars

----------------------------------------------------------------------------
(* simulateAudioBands called directly, on any inputs *)

\* one call: the arguments are kept in audioLevel, state, timeRef and random
BandsCall ==
    \E level \in WideLevels, st \in AgentState, time \in Times, rnd \in Draws :
        /\ calls = 0
        /\ calls' = 1
        /\ audioLevel' = level
        /\ state' = st
        /\ timeRef' = time
        /\ random' = [NoDraws EXCEPT !.transient = rnd]
        /\ audioBandsRef' = simulateAudioBands(level, st, time, rnd)
        /\ UNCHANGED << phase, size, isInitialized, animationRef,
                        sphereConfigRef, colorCycleRef, closure,
                        lastFrameTime, now,
                        pending, nextHandle, canvas, frames, bodyRuns,
                        cancelled, cleanups, canvasWidth, trace,
                        index >>

NextBands == BandsCall

InitBands == Constructed(300, "disconnected", 0, 0)

SpecBands == InitBands /\ [][NextBands]_vars

----------------------------------------------------------------------------
(* updateSpherePosition called directly, on any bands and any prior velocity *)

\* a constructed component whose sphere already moves
InitMove ==
    \E sz \in Sizes, vx \in Velocities, vy \in Velocities :
        ConstructedWith(sz, "listening", 0, 0,
            [InitialConfig(sz) EXCEPT !.velocityX = vx, !.velocityY = vy])

\* one call, on the bands simulateAudioBands makes of the inputs `in`
MoveCall ==
    \E in \in MoveInputs, deltaTime \in MoveDeltas, rx \in CoarseDraws,
       ry \in CoarseDraws :
        LET bands == simulateAudioBands(in[1], in[2], in[3], in[4])
        IN  /\ calls < MaxMoves
            /\ calls' = calls + 1
            /\ audioBandsRef' = bands
            /\ sphereConfigRef' =
                  updateSpherePosition(sphereConfigRef, closure.size, bands,
                                       deltaTime, rx, ry)
            /\ UNCHANGED << phase, size, state, audioLevel, isInitialized,
                            animationRef, timeRef, colorCycleRef, closure,
                            lastFrameTime, now, pending, nextHandle, random,
                            canvas, frames, bodyRuns, cancelled, cleanups,
                            canvasWidth, trace,
                        index >>

NextMove == MoveCall

SpecMove == InitMove /\ [][NextMove]_vars

----------------------------------------------------------------------------
(* The drawing routines called directly, as a drawn tick calls them, on any
   audioLevel, state and accumulated time *)

InitDraw == \E sz \in Sizes : Constructed(sz, "disconnected", 0, 0)

\* one drawn frame at accumulated time `time`; the colour cycle has advanced
\* by 0.0001 per millisecond of it
DrawCall ==
    \E level \in DrawLevels, st \in AgentState, time \in DrawTimes,
       rnd \in CoarseDraws :
        LET bands == simulateAudioBands(level, st, time, rnd)
        IN  /\ calls = 0
            /\ calls' = 1
            /\ audioLevel' = level
            /\ state' = st
            /\ timeRef' = time
            /\ colorCycleRef' = time
            /\ random' = [NoDraws EXCEPT !.transient = rnd]
            /\ audioBandsRef' = bands
            /\ canvas' = Paint(sphereConfigRef, statePalettes[st], bands, time,
                               time)
            /\ UNCHANGED << phase, size, isInitialized, animationRef,
                            sphereConfigRef, closure, lastFrameTime, now,
                            pending, nextHandle, frames, bodyRuns, cancelled,
                            cleanups, canvasWidth, trace, index >>

NextDraw == DrawCall

SpecDraw == InitDraw /\ [][NextDraw]_vars

----------------------------------------------------------------------------
(* Properties *)

\* a step that draws a frame
DrawsFrame == frames' = frames + 1

\* C1: every drawn frame synthesizes its bands from the audioLevel and state
\* the host supplied last, and paints with the palette of that state.
C1_FrameUsesCurrentProps ==
    [][DrawsFrame =>
        /\ canvas'.colors = statePalettes[state']
        /\ \E rnd \in CoarseDraws :
              audioBandsRef' =
                  simulateAudioBands(audioLevel', state', timeRef', rnd)]_vars

\* C2: after any calls of updateSpherePosition under a fixed size, the offset
\* lies within size * 0.05 of zero on each axis.
C2_OffsetWithinFivePercent ==
    calls > 0 =>
        /\ -(size * 50) <= sphereConfigRef.x /\ sphereConfigRef.x <= size * 50
        /\ -(size * 50) <= sphereConfigRef.y /\ sphereConfigRef.y <= size * 50

\* the x axis sits on its limit while the y axis is strictly inside
C2_Witness ==
    /\ calls > 0
    /\ Abs(sphereConfigRef.x) = size * 50
    /\ Abs(sphereConfigRef.y) < size * 50
    /\ sphereConfigRef.y # 0

\* C3: after every call of updateSpherePosition the velocity magnitude is at
\* most 0.5 + 0.5 * movementFactor of the bands of that call.
C3_VelocityWithinLimit ==
    calls > 0 =>
        LET limit == 500 + (2 * audioBandsRef.transient
                            + (3 * audioBandsRef.mid) \div 2) \div 2
        IN  sphereConfigRef.velocityX * sphereConfigRef.velocityX
            + sphereConfigRef.velocityY * sphereConfigRef.velocityY
                <= limit * limit

\* a call that had to cut a velocity with two non-zero components
C3_Witness ==
    /\ calls > 0
    /\ sphereConfigRef.velocityX # 0
    /\ sphereConfigRef.velocityY # 0
    /\ Sqrt(sphereConfigRef.velocityX * sphereConfigRef.velocityX
            + sphereConfigRef.velocityY * sphereConfigRef.velocityY)
         >= maxVelocity(audioBandsRef) - 1

\* C4: a frame is drawn only when at least 1000/30 ms have passed since
\* lastFrameTime, which a drawn frame sets to its own timestamp: consecutive
\* drawn frames are at least 1000/30 ms apart.
C4_DrawnFramesThrottled ==
    [][DrawsFrame =>
        /\ lastFrameTime' = now'
        /\ 3 * (lastFrameTime' - lastFrameTime) >= 100]_vars

\* two frames drawn and a callback skipped
C4_Witness == frames >= 2 /\ bodyRuns > frames

\* C5: the teardown of a running component cancels the pending callback and
\* zeroes the handle; afterwards no callback runs and no frame is drawn.
C5_TeardownStopsAnimation ==
    [][phase' = "unmounted" =>
        /\ animationRef' = 0
        /\ pending' = {}
        /\ phase = "running" =>
              pending' = pending \ {animationRef} /\ cancelled' = cancelled + 1
        /\ phase = "unmounted" =>
              bodyRuns' = bodyRuns /\ frames' = frames /\ canvas' = canvas]_vars

\* torn down after frames were drawn
C5_Witness == phase = "unmounted" /\ frames >= 1 /\ cancelled = 1

\* C6: however often the cleanup is called, the callback is cancelled exactly
\* once; a call that finds the handle 0 cancels nothing and changes no state.
C6_TeardownIdempotent ==
    [][cleanups' # cleanups =>
        /\ cancelled' = 1
        /\ animationRef = 0 =>
              UNCHANGED << phase, size, state, audioLevel, isInitialized,
                           animationRef, sphereConfigRef, timeRef,
                           colorCycleRef, audioBandsRef, closure, lastFrameTime,
                           now, pending, nextHandle, random, canvas, frames,
                           bodyRuns, cancelled, canvasWidth, calls, trace,
                    index >>]_vars

\* the cleanup was called twice
C6_Witness == cleanups >= 2 /\ cancelled = 1 /\ animationRef = 0

\* C7: while the component runs, every execution of the frame callback,
\* drawn or skipped, ends with a new callback pending under the stored handle.
C7_AlwaysRescheduled ==
    [][(phase = "running" /\ bodyRuns' # bodyRuns) =>
        /\ animationRef' # 0
        /\ animationRef' # animationRef
        /\ pending' = {animationRef'}]_vars

\* a frame was drawn, a callback was skipped, and the next one is pending
C7_Witness ==
    /\ phase = "running"
    /\ frames >= 1
    /\ bodyRuns > frames
    /\ animationRef \in pending

\* C8: simulateAudioBands returns four non-negative bands for every level,
\* state and time.
C8_BandsNonNegative ==
    calls > 0 =>
        /\ audioBandsRef.low >= 0
        /\ audioBandsRef.mid >= 0
        /\ audioBandsRef.high >= 0
        /\ audioBandsRef.transient >= 0

\* a call with a negative level and positive bands
C8_Witness ==
    /\ calls > 0
    /\ audioLevel < 0
    /\ audioBandsRef.low > 0
    /\ audioBandsRef.transient > 0

\* C9: with audioLevel = 0 every band is 0, whatever the state, the time and
\* the random draw.
C9_ZeroLevelZeroBands ==
    (calls > 0 /\ audioLevel = 0) =>
        /\ audioBandsRef.low = 0
        /\ audioBandsRef.mid = 0
        /\ audioBandsRef.high = 0
        /\ audioBandsRef.transient = 0

\* a call with level 0 whose random draw is above every spike threshold
C9_Witness ==
    /\ calls > 0
    /\ audioLevel = 0
    /\ random.transient > 900
    /\ timeRef > 0

\* the base coefficients << low, mid, high >> of a state, in thousandths
C10_Coefficients(st) ==
    IF st = "speaking" THEN << 700, 500, 800 >>
    ELSE IF st = "listening" THEN << 400, 700, 500 >>
    ELSE << 300, 300, 300 >>

\* C10: at time 0 the low, mid and high bands are |audioLevel| times the
\* state's base coefficients.
C10_BaseCoefficientsAtTimeZero ==
    (calls > 0 /\ timeRef = 0) =>
        LET a == IF audioLevel < 0 THEN -audioLevel ELSE audioLevel
            c == C10_Coefficients(state)
        IN  /\ 1000 * audioBandsRef.low <= c[1] * a
            /\ 1000 * audioBandsRef.low > c[1] * a - 1000
            /\ 1000 * audioBandsRef.mid <= c[2] * a
            /\ 1000 * audioBandsRef.mid > c[2] * a - 1000
            /\ 1000 * audioBandsRef.high <= c[3] * a
            /\ 1000 * audioBandsRef.high > c[3] * a - 1000

\* the scenario of the specification: speaking, level 1.0, time 0
C10_Witness ==
    /\ calls > 0
    /\ timeRef = 0
    /\ state = "speaking"
    /\ audioLevel = 1000
    /\ audioBandsRef.low = 700
    /\ audioBandsRef.mid = 500
    /\ audioBandsRef.high = 800

\* C11: each of the six agent states has a palette with exactly the five keys
\* primary, secondary, tertiary, accent, highlight, each a defined colour, and
\* a drawn frame paints with the palette of its state.
C11_PaletteLookupTotal ==
    /\ \A s \in AgentState :
          /\ s \in DOMAIN statePalettes
          /\ DOMAIN statePalettes[s] =
                {"primary", "secondary", "tertiary", "accent", "highlight"}
          /\ \A key \in DOMAIN statePalettes[s] :
                statePalettes[s][key] \notin {"", "undefined"}
    /\ canvas.painted =>
          /\ state \in DOMAIN statePalettes
          /\ canvas.colors = statePalettes[state]
          /\ Cardinality(DOMAIN canvas.colors) = 5

\* frames painted for a state outside the three the life-cycle model uses
C11_Witness ==
    /\ canvas.painted
    /\ state \in {"disconnected", "connecting", "initializing"}
    /\ canvas.sphere.rimColor = "#FFDEE2"

\* C12: in every drawn frame the colour index of every arc is an integer in
\* 0..4 and the arc colour is one of the five palette colours.
C12_ColorIndexInRange ==
    canvas.painted =>
        \A k \in DOMAIN canvas.arcs :
            /\ canvas.arcs[k].colorIndex \in 0..4
            /\ \E key \in DOMAIN canvas.colors :
                  canvas.arcs[k].arcColor = canvas.colors[key]

\* the cycle counter has passed 4 and the index of the last arc has wrapped
C12_Witness ==
    /\ canvas.painted
    /\ colorCycleRef >= 40000
    /\ canvas.arcs[3].colorIndex < canvas.arcs[1].colorIndex

\* C13: a callback the throttle skips changes neither the accumulators, nor
\* lastFrameTime, the bands, the sphere configuration or the canvas; it only
\* replaces the scheduled handle.
C13_SkippedFrameChangesNothing ==
    [][(bodyRuns' # bodyRuns /\ 30 * (now' - lastFrameTime) < 1000) =>
        /\ UNCHANGED << timeRef, colorCycleRef, lastFrameTime, audioBandsRef,
                        sphereConfigRef, canvas, frames >>
        /\ animationRef' # animationRef]_vars

\* a callback was skipped after a frame had been drawn
C13_Witness ==
    /\ frames >= 1
    /\ timeRef > 0
    /\ now > lastFrameTime
    /\ trace = << "requestAnimationFrame" >>

\* C17: in a drawn tick the state update, the clear, the sphere, the arcs and
\* the lastFrameTime update all come before the request of the next frame,
\* which is the last step of the tick.
C17_DrawCompletesBeforeReschedule ==
    [][DrawsFrame =>
        /\ trace'[Len(trace')] = "requestAnimationFrame"
        /\ \A step \in {"update", "clearRect", "drawMainSphere",
                        "drawOrbitalArcs", "lastFrameTime"} :
              \E k \in 1..(Len(trace') - 1) : trace'[k] = step
        /\ \A k \in 1..(Len(trace') - 1) : trace'[k] # "requestAnimationFrame"
        /\ lastFrameTime' = now'
        /\ canvas'.painted
        /\ animationRef' \in pending']_vars

\* two ticks were drawn: the second was scheduled by the first
C17_Witness ==
    /\ frames >= 2
    /\ Len(trace) = 6
    /\ animationRef \in pending

\* C18: for any audioLevel, in or out of range, any state and any time, every
\* radius handed to arc and createRadialGradient is non-negative.
C18_RadiiNonNegative ==
    canvas.painted =>
        /\ canvas.sphere.radius >= 0
        /\ canvas.sphere.gradient.r0 >= 0
        /\ canvas.sphere.gradient.r1 >= 0
        /\ \A k \in DOMAIN canvas.arcs :
              /\ canvas.arcs[k].orbitalRadius >= 0
              /\ canvas.arcs[k].mirrorRadius >= 0

\* a frame drawn for a negative audioLevel far out of range
C18_Witness ==
    /\ canvas.painted
    /\ audioLevel < -1500
    /\ canvas.sphere.radius > 0
    /\ audioBandsRef.low > 1000

\* C20: for any audioLevel in [-1, 1], the orbital radius of every arc is
\* larger than the radius of the sphere drawn in the same frame.
C20_OrbitOutsideSphere ==
    (canvas.painted /\ -1000 <= audioLevel /\ audioLevel <= 1000) =>
        \A k \in DOMAIN canvas.arcs :
            canvas.arcs[k].orbitalRadius > canvas.sphere.radius

\* C14: when getUserMedia fails the failure is caught, one error notification
\* is issued, the interval simulator is started, getUserMedia is never called
\* again, and the component goes on drawing while the page is mounted.
C14_FailureFallsBackOnce ==
    /\ index.requests <= 1
    /\ index.mic = "denied" =>
          /\ index.consoleErrors = 1
          /\ index.errorToasts = 1
          /\ index.successToasts = 0
          /\ index.intervals = 1
          /\ index.requests = 1
          /\ ~index.micAccess
          /\ index.contextState = "none"
          /\ phase = "running" => animationRef \in pending

\* after the failure the simulator has ticked and a frame has been drawn
C14_Witness ==
    /\ index.mic = "denied"
    /\ index.ticks >= 1
    /\ audioLevel # 0
    /\ frames >= 1
    /\ phase = "running"

\* C15: when the microphone was acquired while the page was mounted, the
\* audio context created then is closed once the page has been torn down.
C15_ContextClosedAfterTeardown ==
    (index.unmounted /\ index.micAccess) => index.contextState = "closed"

\* C16: once the page has been torn down neither the drawing callback nor the
\* polling callback is in the host's list, so neither runs again.
C16_BothLoopsCancelled ==
    index.unmounted =>
        /\ pending = {}
        /\ index.polling = {}
        /\ animationRef = 0
        /\ ~ENABLED AnimationFrame
        /\ ~ENABLED PollFrame

\* both loops had run before the teardown cancelled one callback of each
C16_Witness ==
    /\ index.unmounted
    /\ index.polls >= 2
    /\ index.animationFrame # 0
    /\ frames >= 1
    /\ cancelled >= 1

\* C19: every level updateAudioLevel computes from an average in 0..255 lies
\* in [-1, 1].
C19_NormalizedLevelInRange ==
    index.polls > 0 =>
        /\ index.average \in 0..255
        /\ -1000 <= index.normalizedLevel
        /\ index.normalizedLevel <= 1000

\* the random threshold of the transient band for a state, in thousandths
C21_Threshold(st) ==
    IF st = "speaking" THEN 800 ELSE IF st = "listening" THEN 700 ELSE 900

\* the spike factor of the transient band for a state, in thousandths
C21_Spike(st) ==
    IF st = "speaking" THEN 1500 ELSE IF st = "listening" THEN 1200 ELSE 800

\* C21: the transient band of a call is 0.1*|audioLevel| when the draw does
\* not exceed the state's threshold and spike*|audioLevel| when it does, so it
\* lies between 0.1*|audioLevel| and 1.5*|audioLevel|.
C21_TransientTwoValues ==
    calls = 1 =>
        LET absLevel == IF audioLevel < 0 THEN -audioLevel ELSE audioLevel
            quiet == (absLevel * 100) \div 1000
            spiked == (absLevel * C21_Spike(state)) \div 1000
        IN  /\ audioBandsRef.transient =
                  IF random.transient <= C21_Threshold(state)
                  THEN quiet ELSE spiked
            /\ quiet <= audioBandsRef.transient
            /\ audioBandsRef.transient <= (absLevel * 1500) \div 1000

\* a listening call whose draw lies between the thresholds 0.7 and 0.8 spikes
C21_Witness ==
    /\ calls = 1
    /\ state = "listening"
    /\ random.transient = 750
    /\ audioLevel = -1000
    /\ audioBandsRef.transient = 1200

\* the amplitude range the interval callback documents for an agent state
C22_LevelFor(agentState, r, r2) ==
    IF agentState = "speaking" THEN
        IF r2 > 900 THEN FMul(FMul(r - 300, 1500), 200)
                    ELSE FMul(r - 300, 1500)
    ELSE IF agentState = "listening" THEN
        IF r2 > 930 THEN FMul(FMul(r - 500, 800), 2500)
                    ELSE FMul(r - 500, 800)
    ELSE FMul(r - 500, 300)

\* C22: at every tick of the fallback simulator the level is drawn from the
\* range of the agent state displayed at that tick, also after the simulator
\* has switched the state itself.
C22_LevelFollowsDisplayedState ==
    (index.ticks > 0 /\ ~index.unmounted) =>
        index.tick.randomLevel =
            C22_LevelFor(index.tick.displayed, index.tick.r, index.tick.r2)

\* C23: when the fallback simulator is running, the teardown of the page
\* clears its timer, and with no timer left its callback does not run again.
C23_TeardownStopsSimulator ==
    [][/\ (~index.unmounted /\ index'.unmounted /\ index.intervals > 0) =>
              index'.intervals = 0
       /\ (index.unmounted /\ index.intervals = 0) =>
              index'.ticks = index.ticks]_vars

\* C24: at every point at most one frame callback of the component is in the
\* host's list, and while one is there animationRef holds its handle.
C24_OneCallbackPending ==
    /\ Cardinality(pending) <= 1
    /\ pending # {} => (animationRef # 0 /\ pending = {animationRef})
    /\ phase \in {"rendered", "mounted", "unmounted"} => pending = {}

\* a frame was drawn, a callback was skipped and the props were changed, and
\* one callback is pending
C24_Witness ==
    /\ phase = "running"
    /\ frames >= 1
    /\ bodyRuns > frames
    /\ audioLevel # closure.audioLevel
    /\ size # closure.size
    /\ Cardinality(pending) = 1

\* C25: after the size prop has changed, every drawn tick leaves the position
\* offset within 5% of the current size on both axes.
C25_ClampFollowsCurrentSize ==
    [][DrawsFrame =>
        /\ Abs(sphereConfigRef'.x) <= size' * 50
        /\ Abs(sphereConfigRef'.y) <= size' * 50]_vars

\* the fields the size effect assigns
C26_Sized == {"baseRadius", "maxExtraRadius", "arcWidth"}

\* C26: a change of size sets baseRadius, maxExtraRadius and arcWidth from the
\* new size and keeps every other field of the configuration, the wave and
\* blur fields included; no step puts the configuration back to its initial
\* value.
C26_ResizeKeepsConfiguration ==
    [][/\ size' # size =>
            /\ sphereConfigRef'.baseRadius = size' * 350
            /\ sphereConfigRef'.maxExtraRadius = size' * 100
            /\ sphereConfigRef'.arcWidth = size' * 30
            /\ DOMAIN sphereConfigRef' = DOMAIN sphereConfigRef
            /\ \A field \in DOMAIN sphereConfigRef \ C26_Sized :
                  sphereConfigRef'[field] = sphereConfigRef[field]
       /\ sphereConfigRef.rotation > 0 => sphereConfigRef'.rotation > 0]_vars

\* the size changed after a tick had turned, moved and blurred the sphere
C26_Witness ==
    /\ frames >= 1
    /\ sphereConfigRef.baseRadius = size * 350
    /\ sphereConfigRef.rotation > 0
    /\ sphereConfigRef.x # 0
    /\ sphereConfigRef.blurAmount # 5000
    /\ closure.size # size

\* C28: the shadow blur assigned for the sphere and for every wave arc of a
\* drawn frame is not negative.
C28_ShadowBlurNonNegative ==
    canvas.painted =>
        /\ canvas.sphere.shadowBlur >= 0
        /\ \A k \in DOMAIN canvas.arcs :
              /\ canvas.arcs[k].arc.shadowBlur >= 0
              /\ canvas.arcs[k].opposite.shadowBlur >= 0

\* C29 for one stroked arc: 31 points from the start to the end angle, a path
\* from the first point to the last, each interior point the control point of
\* exactly one of 29 quadratic segments.
C29_ArcSmoothed(drawn, startAngle, endAngle) ==
    /\ Len(drawn.points) = 31
    /\ drawn.points[1].angle = startAngle
    /\ drawn.points[31].angle = endAngle
    /\ Len(drawn.path) = 30
    /\ drawn.path[1].op = "moveTo"
    /\ drawn.path[1].x = drawn.points[1].x
    /\ drawn.path[1].y = drawn.points[1].y
    /\ drawn.path[30].x = drawn.points[31].x
    /\ drawn.path[30].y = drawn.points[31].y
    /\ \A s \in 2..30 : drawn.path[s].op = "quadraticCurveTo"
    /\ \A i \in 1..29 :
          /\ Cardinality({s \in 2..30 : drawn.path[s].control = i}) = 1
          /\ \A s \in 2..30 :
                drawn.path[s].control = i =>
                    /\ drawn.path[s].cpx = drawn.points[i + 1].x
                    /\ drawn.path[s].cpy = drawn.points[i + 1].y

C27_AccumulatorsTrackDrawnTime ==
    [][/\ \E t0 \in StartTimes : timeRef' = lastFrameTime' - t0
       /\ colorCycleRef' = timeRef'
       /\ timeRef' >= timeRef
       /\ colorCycleRef' >= colorCycleRef
       /\ DrawsFrame =>
             /\ timeRef' = timeRef + (now' - lastFrameTime)
             /\ lastFrameTime' = now']_vars

\* two frames were drawn, each after a skipped callback whose 20 ms it carried
C27_Witness ==
    /\ frames = 2
    /\ bodyRuns = 4
    /\ timeRef = 80
    /\ colorCycleRef = 80
    /\ lastFrameTime = now

====
